---- MODULE Spec2Model ----
(* Model of the AI Resume Analyzer backend (src/backend/main.py):          *)
(* the /api/resume/analyze request pipeline, the health endpoint, file-     *)
(* extension handling, text extraction and the AI-response cleanup/parse.   *)
EXTENDS Integers, Sequences, FiniteSets, TLC

(* ---------------- characters and text helpers ---------------- *)
NL == "\n"
BT == "bq"   \* a backtick character
Fence == <<BT, BT, BT>>

\* characters Python's str.strip() and json's parser treat as whitespace
Ws == {" ", NL}

RECURSIVE StripLeft(_)
StripLeft(s) == IF Len(s) > 0 /\ Head(s) \in Ws THEN StripLeft(Tail(s)) ELSE s

RECURSIVE StripRight(_)
StripRight(s) == IF Len(s) > 0 /\ s[Len(s)] \in Ws
                 THEN StripRight(SubSeq(s, 1, Len(s) - 1)) ELSE s

\* str.strip()
Strip(s) == StripRight(StripLeft(s))

\* str.startswith(prefix)
StartsWith(s, p) == Len(s) >= Len(p) /\ SubSeq(s, 1, Len(p)) = p

RECURSIVE SplitAcc(_, _, _, _, _)
SplitAcc(s, c, i, cur, acc) ==
  IF i > Len(s) THEN Append(acc, cur)
  ELSE IF s[i] = c THEN SplitAcc(s, c, i + 1, <<>>, Append(acc, cur))
  ELSE SplitAcc(s, c, i + 1, Append(cur, s[i]), acc)

\* str.split(c)
Split(s, c) == SplitAcc(s, c, 1, <<>>, <<>>)

RECURSIVE Join(_, _)
\* c.join(parts)
Join(parts, c) ==
  IF Len(parts) = 0 THEN <<>>
  ELSE IF Len(parts) = 1 THEN parts[1]
  ELSE parts[1] \o <<c>> \o Join(Tail(parts), c)

LowerChar(ch) == CASE ch = "P" -> "p" [] ch = "D" -> "d" [] ch = "F" -> "f"
                   [] ch = "X" -> "x" [] ch = "C" -> "c" [] OTHER -> ch

\* str.lower()
Lower(s) == [i \in 1..Len(s) |-> LowerChar(s[i])]

(* ---------------- json.loads over a small JSON fragment ---------------- *)
(* Values: integers written with the digit 1 (a run of digits is one     *)
(* number), the object literals G (a complete AnalysisResult) and X (an    *)
(* object missing categoryScores, atsScore out of range), the constant    *)
(* NaN (N), which json.loads accepts, and one-element / empty arrays of    *)
(* values.  A parsed value is rendered as its canonical text; nan records   *)
(* whether it contains NaN.                                                *)
Atoms == {"G", "X", "N"}
Digits == {"1"}

\* index just past the run of digits starting at i
RECURSIVE DigitEnd(_, _)
DigitEnd(s, i) == IF i <= Len(s) /\ s[i] \in Digits THEN DigitEnd(s, i + 1) ELSE i

\* the characters s[i..j-1] as a string
RECURSIVE SeqToStr(_, _, _)
SeqToStr(s, i, j) == IF i >= j THEN "" ELSE s[i] \o SeqToStr(s, i + 1, j)

RECURSIVE SkipWs(_, _)
SkipWs(s, i) == IF i <= Len(s) /\ s[i] \in Ws THEN SkipWs(s, i + 1) ELSE i

NoParse == [ok |-> FALSE, v |-> "", nx |-> 0, nan |-> FALSE]

RECURSIVE ParseValue(_, _)
ParseValue(s, i) ==
  IF i > Len(s) THEN NoParse
  ELSE IF s[i] \in Atoms THEN [ok |-> TRUE, v |-> s[i], nx |-> i + 1, nan |-> s[i] = "N"]
  ELSE IF s[i] \in Digits
    THEN [ok |-> TRUE, v |-> SeqToStr(s, i, DigitEnd(s, i)), nx |-> DigitEnd(s, i), nan |-> FALSE]
  ELSE IF s[i] = "[" THEN
    LET j == SkipWs(s, i + 1) IN
    IF j <= Len(s) /\ s[j] = "]" THEN [ok |-> TRUE, v |-> "[]", nx |-> j + 1, nan |-> FALSE]
    ELSE LET r == ParseValue(s, j) IN
         IF ~r.ok THEN NoParse
         ELSE LET k == SkipWs(s, r.nx) IN
              IF k <= Len(s) /\ s[k] = "]"
              THEN [ok |-> TRUE, v |-> "[" \o r.v \o "]", nx |-> k + 1, nan |-> r.nan]
              ELSE NoParse
  ELSE NoParse

\* json.loads: one value, surrounded only by whitespace
JsonLoads(s) ==
  LET r == ParseValue(s, SkipWs(s, 1)) IN
  IF r.ok /\ SkipWs(s, r.nx) = Len(s) + 1
  THEN [ok |-> TRUE, v |-> r.v, nan |-> r.nan] ELSE [ok |-> FALSE, v |-> "", nan |-> FALSE]

\* variant dropping only the first line of a fenced response (lines[1:])
InvokeAndParseKeepLast(raw) ==
  LET t == Strip(raw)
      lines == Split(t, NL)
      cleaned == IF StartsWith(t, Fence)
                 THEN Join(SubSeq(lines, 2, Len(lines)), NL)
                 ELSE t
  IN JsonLoads(cleaned)

\* analyze_with_gemini, lines 226-235: strip, drop fence lines, parse
InvokeAndParse(raw) ==
  LET t == Strip(raw)
      lines == Split(t, NL)
      cleaned == IF StartsWith(t, Fence)
                 THEN Join(SubSeq(lines, 2, Len(lines) - 1), NL)
                 ELSE t
  IN JsonLoads(cleaned)

(* ---------------- file names and extraction ---------------- *)
\* allowed_extensions (line 328); extract_text_from_file's two branches
Allowed == {<<"p","d","f">>, <<"d","o","c","x">>}

\* variant taking the part after the first '.' (split('.')[1])
FileExtFirstPart(name) ==
  LET parts == Split(Lower(name), ".") IN IF Len(parts) > 1 THEN parts[2] ELSE parts[1]

\* filename.lower().split('.')[-1]  (lines 119 and 329)
FileExt(name) == LET parts == Split(Lower(name), ".") IN parts[Len(parts)]

\* variant without the try/except around the PDF reader
ExtractTextFromPdfUncaught(o) ==
  IF o.raise THEN [kind |-> "uncaught", status |-> 500, detail |-> "internal", len |-> -1]
  ELSE [kind |-> "text", status |-> 0, detail |-> "", len |-> o.len]

\* extract_text_from_pdf (lines 53-77): reader errors become a 400
ExtractTextFromPdf(o) ==
  IF o.raise THEN [kind |-> "error", status |-> 400, detail |-> "extractPdf", len |-> -1]
  ELSE [kind |-> "text", status |-> 0, detail |-> "", len |-> o.len]

\* extract_text_from_docx (lines 80-104)
ExtractTextFromDocx(o) ==
  IF o.raise THEN [kind |-> "error", status |-> 400, detail |-> "extractDocx", len |-> -1]
  ELSE [kind |-> "text", status |-> 0, detail |-> "", len |-> o.len]

\* extract_text_from_file (lines 107-132); reader is the reader handed the bytes
ExtractTextFromFile(name, o) ==
  LET ext == FileExt(name) IN
  IF ext = <<"p","d","f">> THEN [reader |-> "pdf"] @@ ExtractTextFromPdf(o)
  ELSE IF ext = <<"d","o","c","x">> THEN [reader |-> "docx"] @@ ExtractTextFromDocx(o)
  ELSE [kind |-> "error", status |-> 400, detail |-> "unsupported", len |-> -1, reader |-> "none"]

\* the length check of line 346
MinTextLen == 50
\* variant checking only for empty text (`if not resume_text`)
TooShortEmptyOnly(len) == len = 0

TooShort(len) == len < MinTextLen

(* ---------------- inputs ---------------- *)
FileNames == {
  <<"c","v",".","p","d","f">>, <<"c","v",".","P","D","F">>,
  <<"c","v",".","d","o","c","x">>, <<"c","v",".","D","o","C","X">>,
  <<"c","v",".","t","x","t">>, <<"c","v",".","d","o","c">>,
  <<"c","v",".","p","d","f",".","t","x","t">>, <<"c","v",".","t","x","t",".","p","d","f">>,
  <<"p","d","f">>, <<"P","D","F">>, <<"d","o","c","x">>, <<"c","v">>,
  <<>>, <<"c","v",".">>, <<".","p","d","f">> }

JobDescriptions == {<<>>, <<" ">>, <<" ", NL>>, <<"x">>, <<" ", "x", " ">>}

TextLens == {0, 30, 49, 50, 200}

\* the outcome of a format reader (PdfReader / Document): it raises, or it
\* yields text whose stripped length is len
ReaderOutcomes == {[raise |-> TRUE, len |-> 0]} \cup {[raise |-> FALSE, len |-> n] : n \in TextLens}

\* texts the AI capability may return (model.generate_content(...).text)
AIResponses == {
  <<"G">>, <<" ", "G", NL>>, Fence \o <<"j", NL, "G", NL>> \o Fence,
  Fence \o <<NL, "G", NL>> \o Fence, <<"X">>, Fence \o <<"j", NL, "X", NL>> \o Fence,
  <<"1">>, <<"[", "G", "]">>, <<"z">>, <<>>, <<"N">>, <<"[", "N", "]">>,
  Fence \o <<"j", NL, "G">>, Fence \o <<"j", NL, "G">> \o Fence }

\* an AnalysisResult of the required shape
Conforms(v) == v = "G"

Stages == <<"Received", "Validated", "TextExtracted", "Prompted", "AIInvoked", "Parsed", "Returned">>

(* ---------------- frontend (src/frontend/app.py) ---------------- *)
\* keys the click handler reads with result[...] (lines 69-71)
RequiredKeys == {"atsScore", "summary", "categoryScores"}
FullKeys == RequiredKeys \cup {"strengths", "weaknesses", "recommendations"}

\* bodies a 200 may carry (the backend passes the AI's JSON through): tag
\* identifies the data, ats the atsScore value
ClientBodies == {
  [isJson |-> TRUE, isObj |-> TRUE, keys |-> FullKeys, tag |-> 1, ats |-> 82],
  [isJson |-> TRUE, isObj |-> TRUE, keys |-> FullKeys, tag |-> 2, ats |-> 150],
  [isJson |-> TRUE, isObj |-> TRUE, keys |-> RequiredKeys, tag |-> 3, ats |-> 40],
  [isJson |-> TRUE, isObj |-> TRUE, keys |-> FullKeys \ {"categoryScores"}, tag |-> 4, ats |-> 70],
  [isJson |-> TRUE, isObj |-> FALSE, keys |-> {}, tag |-> 5, ats |-> 0],
  [isJson |-> FALSE, isObj |-> FALSE, keys |-> {}, tag |-> 6, ats |-> 0] }

NoBody == [isJson |-> FALSE, isObj |-> FALSE, keys |-> {}, tag |-> 0, ats |-> 0]

\* outcomes of requests.post(..., timeout=60) (lines 58-63)
ClientResponses ==
  {[kind |-> "200", body |-> b] : b \in ClientBodies}
  \cup {[kind |-> k, body |-> NoBody] : k \in {"400", "500", "conn", "timeout"}}

\* one click: the form state and, when a request is sent, its response
ClickInputs ==
  {[form |-> f, resp |-> [kind |-> "none", body |-> NoBody]] : f \in {"noFile", "blankJd"}}
  \cup {[form |-> "ok", resp |-> r] : r \in ClientResponses}

\* session before any analysis: analysis_done unset
EmptySession == [done |-> FALSE, ats |-> 0, cats |-> 0, strengths |-> 0, weaknesses |-> 0, recs |-> 0]

\* result.get(k, []) renders as 0 (the empty list) when k is absent
GetOr(b, k) == IF k \in b.keys THEN b.tag ELSE 0

\* the session_state writes of lines 69-83
SessionOf(b) ==
  [done |-> TRUE, ats |-> b.ats, cats |-> b.tag, strengths |-> GetOr(b, "strengths"),
   weaknesses |-> GetOr(b, "weaknesses"), recs |-> GetOr(b, "recommendations")]

\* response.json() and the three result[...] reads succeed (lines 66-71)
Extractable(b) == b.isJson /\ b.isObj /\ RequiredKeys \subseteq b.keys

MaxClicks == 3

(* ---------------- state ---------------- *)
VARIABLES
  hasKey,          \* GEMINI_API_KEY present at process start (line 41)
  filePresent,     \* the multipart request carries a resumeFile part
  fileName,        \* resumeFile.filename
  jdPresent,       \* the multipart request carries a jobDescription field
  jd,              \* jobDescription
  pc,              \* stage of the request in analyze_resume
  hist,            \* stages completed so far, in order
  status,          \* HTTP status of the response (0: none yet)
  detail,          \* kind of error detail
  detailIsString,  \* the error body is {detail: <string>}
  fileRead,        \* await resumeFile.read() has run
  readerCalled,    \* the reader handed the file bytes: "none", "pdf", "docx"
  readerRaised,    \* that reader raised an exception
  textLen,         \* stripped length of the extracted text (-1: none)
  aiCalls,         \* number of model.generate_content calls
  respText,        \* text returned by the AI capability
  body,            \* parsed result returned with a 200
  healthResp,      \* gemini_configured of GET /api/resume/health
  fj, flabel, fdone, fplain, ffenced, \* fence-stripping harness
  sess,            \* frontend st.session_state (app.py)
  clog,            \* the frontend's Analyze clicks so far, with their responses
  posts            \* requests.post calls made by each click

reqVars == <<hasKey, filePresent, fileName, jdPresent, jd, pc, hist, status, detail,
             detailIsString, fileRead, readerCalled, readerRaised, textLen, aiCalls, respText, body, healthResp>>
fenceVars == <<fj, flabel, fdone, fplain, ffenced>>
clientVars == <<sess, clog, posts>>
vars == <<reqVars, fenceVars, clientVars>>

NoLoad == [ok |-> FALSE, v |-> "", nan |-> FALSE]

FenceIdle == fj = <<>> /\ flabel = <<>> /\ fdone = FALSE /\ fplain = NoLoad /\ ffenced = NoLoad

RequestStart ==
  /\ pc = "Received" /\ hist = <<"Received">> /\ status = 0 /\ detail = ""
  /\ detailIsString = FALSE /\ fileRead = FALSE /\ readerCalled = "none" /\ readerRaised = FALSE
  /\ textLen = -1 /\ aiCalls = 0 /\ respText = <<>> /\ body = "" /\ healthResp = "none"

Init ==
  /\ sess = EmptySession /\ clog = <<>> /\ posts = <<>>
  /\ hasKey \in BOOLEAN
  /\ filePresent \in BOOLEAN
  /\ fileName \in (IF filePresent THEN FileNames ELSE {<<>>})
  /\ jdPresent \in BOOLEAN
  /\ jd \in (IF jdPresent THEN JobDescriptions ELSE {<<>>})
  /\ RequestStart
  /\ FenceIdle

Fail(code, d, isStr) ==
  /\ pc' = "Failed" /\ status' = code /\ detail' = d /\ detailIsString' = isStr
  /\ UNCHANGED hist

Advance(stage) == pc' = stage /\ hist' = Append(hist, stage)

(* analyze_resume, lines 289-335: FastAPI's validation of the required     *)
(* File(...)/Form(...) parameters (a missing part, or an empty form value, *)
(* is rejected with 422 and a list-valued detail before the handler runs), *)
(* then the API-key, job-description and file-type checks.  The check       *)
(* `if not resumeFile` (line 314) never fires: an UploadFile is truthy.     *)
Validate ==
  /\ pc = "Received"
  /\ IF ~filePresent \/ ~jdPresent \/ jd = <<>>
       THEN Fail(422, "fieldRequired", FALSE)
       ELSE IF ~hasKey THEN Fail(500, "config", TRUE)
       ELSE IF Strip(jd) = <<>> THEN Fail(400, "jdRequired", TRUE)
       ELSE IF FileExt(fileName) \notin Allowed THEN Fail(400, "invalidType", TRUE)
       ELSE Advance("Validated") /\ UNCHANGED <<status, detail, detailIsString>>
  /\ UNCHANGED <<hasKey, filePresent, fileName, jdPresent, jd, fileRead, readerCalled, readerRaised,
                 textLen, aiCalls, respText, body, healthResp>>
  /\ UNCHANGED fenceVars /\ UNCHANGED clientVars

(* analyze_resume, lines 337-352 with the handlers of lines 365-375:       *)
(* read the upload, extract its text, check its length                    *)
ReadAndExtract ==
  /\ pc = "Validated"
  /\ \E readOk \in BOOLEAN, o \in ReaderOutcomes :
       /\ fileRead' = TRUE
       /\ IF ~readOk
            THEN Fail(500, "internal", TRUE) /\ UNCHANGED <<readerCalled, readerRaised, textLen>>
            ELSE LET r == ExtractTextFromFile(fileName, o) IN
                 /\ readerCalled' = r.reader
                 /\ readerRaised' = (r.reader # "none" /\ o.raise)
                 /\ IF r.kind = "error"
                      THEN Fail(r.status, r.detail, TRUE) /\ UNCHANGED textLen
                    ELSE IF r.kind = "uncaught"
                      THEN Fail(500, "internal", TRUE) /\ UNCHANGED textLen
                    ELSE /\ textLen' = r.len
                         /\ IF TooShort(r.len)
                              THEN Fail(400, "insufficient", TRUE)
                              ELSE Advance("TextExtracted") /\ UNCHANGED <<status, detail, detailIsString>>
  /\ UNCHANGED <<hasKey, filePresent, fileName, jdPresent, jd, aiCalls, respText, body, healthResp>>
  /\ UNCHANGED fenceVars /\ UNCHANGED clientVars

\* analyze_with_gemini, lines 216-219: model construction and build_analysis_prompt
BuildPrompt ==
  /\ pc = "TextExtracted"
  /\ Advance("Prompted")
  /\ UNCHANGED <<hasKey, filePresent, fileName, jdPresent, jd, status, detail, detailIsString,
                 fileRead, readerCalled, readerRaised, textLen, aiCalls, respText, body, healthResp>>
  /\ UNCHANGED fenceVars /\ UNCHANGED clientVars

\* cap on AI calls explored per request
MaxAICalls == 2

\* variant retrying the call after a provider error
CallGeminiRetry ==
  /\ pc = "Prompted"
  /\ aiCalls < MaxAICalls
  /\ aiCalls' = aiCalls + 1
  /\ \E raised \in BOOLEAN, r \in AIResponses :
       IF raised
         THEN UNCHANGED <<pc, hist, status, detail, detailIsString, respText>>
         ELSE Advance("AIInvoked") /\ respText' = r /\ UNCHANGED <<status, detail, detailIsString>>
  /\ UNCHANGED <<hasKey, filePresent, fileName, jdPresent, jd, fileRead, readerCalled, readerRaised,
                 textLen, body, healthResp>>
  /\ UNCHANGED fenceVars /\ UNCHANGED clientVars

\* analyze_with_gemini, lines 222-223 and 248-253: one generate_content call;
\* a provider error becomes a 500
CallGemini ==
  /\ pc = "Prompted"
  /\ aiCalls < MaxAICalls
  /\ aiCalls' = aiCalls + 1
  /\ \E raised \in BOOLEAN, r \in AIResponses :
       IF raised
         THEN Fail(500, "gemini", TRUE) /\ UNCHANGED respText
         ELSE Advance("AIInvoked") /\ respText' = r /\ UNCHANGED <<status, detail, detailIsString>>
  /\ UNCHANGED <<hasKey, filePresent, fileName, jdPresent, jd, fileRead, readerCalled, readerRaised,
                 textLen, body, healthResp>>
  /\ UNCHANGED fenceVars /\ UNCHANGED clientVars

\* variant retrying the AI call after a malformed response
ParseResponseRetry ==
  /\ pc = "AIInvoked"
  /\ LET p == InvokeAndParse(respText) IN
       IF p.ok
         THEN Advance("Parsed") /\ body' = p.v /\ UNCHANGED <<status, detail, detailIsString>>
         ELSE pc' = "Prompted" /\ UNCHANGED <<hist, status, detail, detailIsString, body>>
  /\ UNCHANGED <<hasKey, filePresent, fileName, jdPresent, jd, fileRead, readerCalled, readerRaised,
                 textLen, aiCalls, respText, healthResp>>
  /\ UNCHANGED fenceVars /\ UNCHANGED clientVars

\* variant returning an empty object when the response does not parse
ParseResponseLenient ==
  /\ pc = "AIInvoked"
  /\ LET p == InvokeAndParse(respText) IN
       IF p.ok
         THEN Advance("Parsed") /\ body' = p.v /\ UNCHANGED <<status, detail, detailIsString>>
         ELSE Advance("Parsed") /\ body' = "{}" /\ UNCHANGED <<status, detail, detailIsString>>
  /\ UNCHANGED <<hasKey, filePresent, fileName, jdPresent, jd, fileRead, readerCalled, readerRaised,
                 textLen, aiCalls, respText, healthResp>>
  /\ UNCHANGED fenceVars /\ UNCHANGED clientVars

\* analyze_with_gemini, lines 226-246: fence stripping and json.loads;
\* a decode error becomes a 500 (the raw text is only printed)
ParseResponse ==
  /\ pc = "AIInvoked"
  /\ LET p == InvokeAndParse(respText) IN
       IF p.ok
         THEN Advance("Parsed") /\ body' = p.v /\ UNCHANGED <<status, detail, detailIsString>>
         ELSE Fail(500, "parse", TRUE) /\ UNCHANGED body
  /\ UNCHANGED <<hasKey, filePresent, fileName, jdPresent, jd, fileRead, readerCalled, readerRaised,
                 textLen, aiCalls, respText, healthResp>>
  /\ UNCHANGED fenceVars /\ UNCHANGED clientVars

(* analyze_resume, lines 359-363 and 369-375: JSONResponse(200, result)   *)
(* renders with allow_nan=False, so a result containing NaN raises a       *)
(* ValueError that the catch-all turns into a 500.                         *)
ReturnResult ==
  /\ pc = "Parsed"
  /\ IF InvokeAndParse(respText).nan
       THEN Fail(500, "internal", TRUE)
       ELSE Advance("Returned") /\ status' = 200 /\ UNCHANGED <<detail, detailIsString>>
  /\ UNCHANGED <<hasKey, filePresent, fileName, jdPresent, jd,
                 fileRead, readerCalled, readerRaised, textLen, aiCalls, respText, body, healthResp>>
  /\ UNCHANGED fenceVars /\ UNCHANGED clientVars

\* health_check, lines 276-285: gemini_configured = bool(GEMINI_API_KEY)
HealthCheck ==
  /\ healthResp = "none"
  /\ healthResp' = IF hasKey THEN "true" ELSE "false"
  /\ UNCHANGED <<hasKey, filePresent, fileName, jdPresent, jd, pc, hist, status, detail,
                 detailIsString, fileRead, readerCalled, readerRaised, textLen, aiCalls, respText, body>>
  /\ UNCHANGED fenceVars /\ UNCHANGED clientVars

Next == Validate \/ ReadAndExtract \/ BuildPrompt \/ CallGemini \/ ParseResponse
        \/ ReturnResult \/ HealthCheck

Spec == Init /\ [][Next]_vars

(* ---------------- fence-stripping harness ---------------- *)
(* analyze_with_gemini applied to a text J and to J fenced as              *)
(* "```<label>\nJ\n```".                                                   *)
MaxJLen == 4
JAlphabet == {"1", "[", "]", " ", NL}
JTexts == UNION {[1..n -> JAlphabet] : n \in 0..MaxJLen}
FenceLabels == {<<>>, <<"j">>}

Fenced(j, label) == Fence \o label \o <<NL>> \o j \o <<NL>> \o Fence

FenceInit ==
  /\ sess = EmptySession /\ clog = <<>> /\ posts = <<>>
  /\ hasKey = TRUE /\ filePresent = TRUE /\ fileName = <<"c","v",".","p","d","f">>
  /\ jdPresent = TRUE /\ jd = <<"x">>
  /\ RequestStart
  /\ fj \in JTexts /\ flabel \in FenceLabels /\ fdone = FALSE
  /\ fplain = NoLoad /\ ffenced = NoLoad

FenceStep ==
  /\ ~fdone
  /\ fdone' = TRUE
  /\ fplain' = InvokeAndParse(fj)
  /\ ffenced' = InvokeAndParse(Fenced(fj, flabel))
  /\ UNCHANGED <<fj, flabel>> /\ UNCHANGED reqVars /\ UNCHANGED clientVars

FenceNext == FenceStep

FenceSpec == FenceInit /\ [][FenceNext]_vars

(* ---------------- frontend session harness ---------------- *)
ClientInit ==
  /\ hasKey = TRUE /\ filePresent = TRUE /\ fileName = <<"c","v",".","p","d","f">>
  /\ jdPresent = TRUE /\ jd = <<"x">>
  /\ RequestStart /\ FenceIdle
  /\ sess = EmptySession /\ clog = <<>> /\ posts = <<>>

\* variant clearing the previous analysis before sending the request
AnalyzeClickResetFirst ==
  /\ Len(clog) < MaxClicks
  /\ \E c \in ClickInputs :
       /\ clog' = Append(clog, c)
       /\ posts' = Append(posts, IF c.form = "ok" THEN 1 ELSE 0)
       /\ sess' = IF c.form # "ok" THEN sess
                  ELSE IF c.resp.kind = "200" /\ Extractable(c.resp.body)
                       THEN SessionOf(c.resp.body)
                       ELSE EmptySession
  /\ UNCHANGED reqVars /\ UNCHANGED fenceVars

(* app.py lines 41-109: the Analyze button handler.  Missing file or blank *)
(* job description: an error, no request.  Otherwise one POST; a non-200,  *)
(* a ConnectionError, a Timeout, or an exception from response.json() or   *)
(* result[...] is shown as an error before any session_state write.  The   *)
(* writes of lines 77-83 happen before the display code (st.progress etc.), *)
(* so an exception there no longer undoes them.                            *)
AnalyzeClick ==
  /\ Len(clog) < MaxClicks
  /\ \E c \in ClickInputs :
       /\ clog' = Append(clog, c)
       /\ posts' = Append(posts, IF c.form = "ok" THEN 1 ELSE 0)
       /\ sess' = IF c.form # "ok" THEN sess
                  ELSE IF c.resp.kind # "200" THEN sess
                  ELSE IF ~Extractable(c.resp.body) THEN sess
                  ELSE SessionOf(c.resp.body)
  /\ UNCHANGED reqVars /\ UNCHANGED fenceVars

ClientNext == AnalyzeClick

ClientSpec == ClientInit /\ [][ClientNext]_vars

\* the backend request and the frontend clicks together
SystemNext == Next \/ ClientNext

SystemSpec == ClientInit /\ [][SystemNext]_vars

(* ================= properties ================= *)

Rank(st) == CHOOSE i \in 1..Len(Stages) : Stages[i] = st

\* C1: a request moves strictly forward through the stages, or to Failed;
\* no stage is revisited, nothing runs after Failed or Returned, and a 200
\* is produced only once every stage has completed in order.
C1_StageOrder ==
  [][ /\ (pc' # pc => /\ pc \notin {"Failed", "Returned"}
                       /\ (pc' = "Failed" \/ Rank(pc') = Rank(pc) + 1))
      /\ (pc = "Failed" => UNCHANGED <<status, detail, fileRead, readerCalled, aiCalls, body>>)
      /\ (status' = 200 => pc' = "Returned" /\ hist' = Stages) ]_vars

C1_Witness == status = 200 /\ hist = Stages

\* C2: with GEMINI_API_KEY absent, every analyze request ends in a 500
\* configuration error without reading, extracting or calling the AI, and
\* the health check reports gemini_configured exactly as the key's presence.
C2_ConfigFastFail ==
  /\ ~hasKey => /\ (pc \in {"Failed", "Returned"} => status = 500 /\ detail = "config")
                /\ ~fileRead /\ readerCalled = "none" /\ aiCalls = 0
  /\ healthResp # "none" => (healthResp = "true" <=> hasKey)

\* C3: an omitted, empty or whitespace-only job description yields 400
\* "Job description is required" before the upload is read.
C3_JobDescriptionRequired ==
  (hasKey /\ filePresent /\ (~jdPresent \/ Strip(jd) = <<>>)) =>
     /\ ~fileRead /\ readerCalled = "none" /\ aiCalls = 0
     /\ (pc = "Failed" => status = 400 /\ detail = "jdRequired")

\* C4: extracted text shorter than 50 characters after trimming yields a 400
\* insufficient-text error and the AI capability is never invoked.
C4_ShortTextNoAI ==
  textLen \in 0..(MinTextLen - 1) =>
     aiCalls = 0 /\ pc = "Failed" /\ status = 400 /\ detail = "insufficient"

C4_Witness == textLen = 30 /\ pc = "Failed"

\* position of the last '.' in a file name (0: none)
LastDot(name) ==
  IF \E i \in 1..Len(name) : name[i] = "."
  THEN CHOOSE i \in 1..Len(name) : name[i] = "." /\ \A k \in (i + 1)..Len(name) : name[k] # "."
  ELSE 0

\* C5 as stated: the format is the lower-cased text after the last '.', and
\* the bytes reach a reader only when that format is pdf or docx.
C5_ExtensionAfterLastDot ==
  readerCalled # "none" =>
     LastDot(fileName) > 0 /\ Lower(SubSeq(fileName, LastDot(fileName) + 1, Len(fileName))) \in Allowed

\* the format as the code determines it: the lower-cased text after the last
\* '.', or the whole lower-cased name when it contains no '.'
FormatOf(name) ==
  Lower(IF LastDot(name) = 0 THEN name ELSE SubSeq(name, LastDot(name) + 1, Len(name)))

\* C5 (amended): with FormatOf as the format, a name whose format is not pdf
\* or docx is rejected by extract_text_from_file with the supported-set
\* error, and by the endpoint (once the key and job description checks pass)
\* with a 400 naming the allowed types, never reaching a reader.
C5_FormatRule ==
  /\ readerCalled # "none" => FormatOf(fileName) \in Allowed
  /\ \A o \in ReaderOutcomes :
       LET r == ExtractTextFromFile(fileName, o) IN
       (FormatOf(fileName) \notin Allowed) <=> (r.reader = "none" /\ r.status = 400 /\ r.detail = "unsupported")
  /\ (hasKey /\ filePresent /\ jdPresent /\ Strip(jd) # <<>> /\ FormatOf(fileName) \notin Allowed
      /\ pc # "Received") => pc = "Failed" /\ status = 400 /\ detail = "invalidType" /\ ~fileRead

C5_Witness == readerCalled # "none" /\ LastDot(fileName) = 0

\* C6: for every valid JSON text J, the fenced response parses to the same
\* result as J itself.
C6_FenceTransparent == (fdone /\ JsonLoads(fj).ok) => ffenced = fplain

C6_Witness == fdone /\ JsonLoads(fj).ok /\ flabel = <<"j">> /\ fplain.v = "[1]"

\* C7: a response that does not parse after fence stripping ends the request
\* with a 500 parse error and no result; a 200 only follows a parsed response.
C7_ParseErrorIs500 ==
  /\ (pc \in {"Failed", "Parsed", "Returned"} /\ aiCalls > 0 /\ detail # "gemini"
      /\ ~InvokeAndParse(respText).ok)
       => pc = "Failed" /\ status = 500 /\ detail = "parse" /\ body = ""
  /\ status = 200 => InvokeAndParse(respText).ok /\ body = InvokeAndParse(respText).v

C7_Witness == pc = "Failed" /\ detail = "parse" /\ respText = <<"z">>

\* C8: every 200 carries an AnalysisResult of the required shape.
C8_ResultShape == status = 200 => Conforms(body)

\* C9: a reader exception on a .pdf/.docx file ends the request with a 400
\* extraction error, and the AI is not invoked.
C9_ReaderErrorIs400 ==
  readerRaised =>
     /\ pc = "Failed" /\ status = 400 /\ detailIsString /\ aiCalls = 0
     /\ detail = (IF readerCalled = "pdf" THEN "extractPdf" ELSE "extractDocx")

C9_Witness == readerRaised /\ readerCalled = "docx"

\* caller-fixable error kinds (400) and server-side kinds (500)
CallerErrors == {"jdRequired", "invalidType", "extractPdf", "extractDocx", "insufficient", "fileRequired"}

\* C10: every request ends in 200, 400 (caller-fixable, including a missing
\* file) or 500, with a string detail on every error.
C10_StructuredResponse ==
  pc \in {"Failed", "Returned"} =>
     /\ status \in {200, 400, 500}
     /\ status # 200 => detailIsString
     /\ status = 400 <=> detail \in CallerErrors
     /\ ~filePresent => status = 400

\* C11: a request calls the AI capability at most once; once it has been
\* called, a provider error or a malformed response ends the request with a
\* 500 and no further call; and each Analyze click of the client sends at
\* most one request, whatever its outcome (no client-side retry).
C11_SingleAICall ==
  /\ aiCalls <= 1
  /\ (aiCalls = 1 /\ pc = "Failed") => status = 500
  /\ (aiCalls = 1 /\ detail \in {"gemini", "parse"}) => pc = "Failed"
  /\ \A k \in 1..Len(posts) : posts[k] <= 1
  /\ (aiCalls = 0) => pc \in {"Received", "Validated", "TextExtracted", "Prompted", "Failed"}

C11_Witness ==
  /\ aiCalls = 1 /\ pc = "Failed" /\ detail = "gemini"
  /\ \E k \in 1..Len(posts) : posts[k] = 1 /\ clog[k].resp.kind \in {"timeout", "conn"}

\* a click the claim counts as a successful analysis: a request answered by
\* a 200 whose body is a JSON object with atsScore, summary and categoryScores
ClaimSuccess(c) ==
  /\ c.form = "ok" /\ c.resp.kind = "200"
  /\ c.resp.body.isJson /\ c.resp.body.isObj
  /\ {"atsScore", "summary", "categoryScores"} \subseteq c.resp.body.keys

RECURSIVE LastSuccessIndex(_, _)
LastSuccessIndex(log, i) ==
  IF i = 0 THEN 0 ELSE IF ClaimSuccess(log[i]) THEN i ELSE LastSuccessIndex(log, i - 1)

\* C12: after any sequence of clicks the session (what the Detailed Analysis
\* panel shows) holds the data of the most recent successful analysis;
\* failed clicks leave it unchanged.
C12_SessionKeepsLastSuccess ==
  LET i == LastSuccessIndex(clog, Len(clog)) IN
  sess = (IF i = 0 THEN EmptySession ELSE SessionOf(clog[i].resp.body))

C12_Witness ==
  /\ Len(clog) >= 2 /\ sess.done
  /\ ~ClaimSuccess(clog[Len(clog)]) /\ clog[Len(clog)].form = "ok"

====
